---- MODULE Spec2Model ----
(***************************************************************************)
(* Model of ic_camera_control/ic_camera_control.py: the IcCameraControl    *)
(* session, its grabber handle, the userdata record shared with the        *)
(* device-lost callback, and the vendor grabber objects the session's      *)
(* calls act on.                                                           *)
(*                                                                         *)
(* The vendor library (tisgrabber) is the environment.  A grabber object   *)
(* is "free" (not allocated), "nodev" (allocated, no valid device),        *)
(* "open" (valid device) or "released".  What the library reports for a    *)
(* snap is an input of read(); what it does with a handle that was         *)
(* already released is a nondeterministic choice.                          *)
(***************************************************************************)
EXTENDS Integers, FiniteSets, Sequences, TLC

\* ---- bounds of the model ----
MaxGrabbers == 2
MaxDevices == 2
MaxReleases == 2

\* ---- inputs ----
Widths == {2}
Heights == {1, 3}
BitsPerPixel == {8, 24}
\* what the path given to a load names on the file system
Configs == {"missing", "good", "malformed", "incompatible"}

Grabbers == 1..MaxGrabbers
NoFrame == -1

VARIABLES
    pc,            \* position of the caller's thread
    resume,        \* where open_device returns to
    hGrabber,      \* self._hGrabber
    grabber,       \* the vendor's grabber objects
    userdata,      \* self.userdata: devicename, connected
    devices,       \* number of connected cameras
    lostPending,   \* a device-lost notification is queued on the vendor thread
    geometry,      \* _width, _height, _bits_per_pixel, _channel, _buffer_size
    last           \* the last step taken and what it returned

vars == <<pc, resume, hGrabber, grabber, userdata, devices, lostPending,
          geometry, last>>

LoadErrors == {"IC_FILE_NOT_FOUND", "IC_DEVICE_NOT_FOUND", "IC_WRONG_XML_FORMAT",
               "IC_WRONG_INCOMPATIBLE_XML"}

NoResult ==
    [op |-> "init", rel |-> 0, ok |-> FALSE, pair |-> FALSE, flag |-> FALSE,
     frame |-> NoFrame, diag |-> "", ndiag |-> 0, ret |-> "", devcount |-> -1,
     vsave |-> FALSE, failed |-> FALSE, fault |-> FALSE]

\* rel counts the calls of release() the caller made in succession, up to
\* two; steps of the cameras and of the vendor thread are not calls
Result(op) ==
    [NoResult EXCEPT !.op = op,
                     !.rel = IF op = "release"
                             THEN (IF last.rel < 2 THEN last.rel + 1 ELSE 2)
                             ELSE 0]
EnvResult(op) == [NoResult EXCEPT !.op = op, !.rel = last.rel]

FreshGrabber ==
    [st |-> "free", flipped |-> FALSE, flipAfterOpen |-> FALSE, live |-> FALSE,
     cb |-> FALSE, released |-> 0]

\* IC_IsDevValid on a handle that was not released
IsDevValid(gr, g) == gr[g].st = "open"

\* the session has released its grabber; after that only release and
\* save_properties are called on it (the session is at the end of its life)
Released == grabber[hGrabber].st = "released"

\* a device becomes valid on grabber g
OpenOn(gr, g) ==
    [gr EXCEPT ![g].st = "open",
               ![g].flipAfterOpen = IF gr[g].st = "open" THEN @ ELSE FALSE]

\* CallbackUserdata.__init__
CallbackUserdata == [devicename |-> "", connected |-> FALSE]

\* state after lines 47-73 of __init__: fields zeroed, IC_CreateGrabber done
Init ==
    /\ pc = "ctor_open"
    /\ resume = "ctor_flip"
    /\ hGrabber = 1
    /\ grabber = [g \in Grabbers |->
                    IF g = 1 THEN [FreshGrabber EXCEPT !.st = "nodev"] ELSE FreshGrabber]
    /\ userdata = CallbackUserdata
    /\ devices \in 0..MaxDevices
    /\ lostPending = FALSE
    /\ geometry = [width |-> 0, height |-> 0, bpp |-> 0, channel |-> 0, buffer_size |-> 0]
    /\ last = NoResult

\* ---- the vendor library, as the calls of the session see it ----

\* IC_LoadDeviceStateFromFileEx: the status it reports
LoadDeviceStateStatus(cfg, open, gr, g, devs) ==
    CASE cfg = "missing" -> "IC_FILE_NOT_FOUND"
      [] cfg = "malformed" -> "IC_WRONG_XML_FORMAT"
      [] cfg = "incompatible" -> "IC_WRONG_INCOMPATIBLE_XML"
      [] OTHER ->
           IF open
           THEN IF devs >= 1 THEN "IC_SUCCESS" ELSE "IC_DEVICE_NOT_FOUND"
           ELSE IF IsDevValid(gr, g) THEN "IC_SUCCESS" ELSE "IC_NO_DEVICE"

\* IC_LoadDeviceStateFromFileEx: its effect on the grabber
LoadDeviceStateGrabber(cfg, open, gr, g, devs) ==
    IF open /\ LoadDeviceStateStatus(cfg, open, gr, g, devs) = "IC_SUCCESS"
    THEN OpenOn(gr, g)
    ELSE gr

\* IC_OpenDevByUniqueName(h, IC_GetUniqueNamefromList(0))
OpenDevByUniqueName(gr, g, devs) == IF devs >= 1 THEN OpenOn(gr, g) ELSE gr

\* IC_ShowDeviceSelectionDialog(None): a new grabber g2, with the device the
\* user picked, or without a device when the dialog was cancelled
ShowDeviceSelectionDialog(gr, g2, picked) ==
    IF picked
    THEN OpenOn([gr EXCEPT ![g2].st = "nodev"], g2)
    ELSE [gr EXCEPT ![g2].st = "nodev"]

\* ---- the session ----

\* load_properties: the diagnostic it logs for a status
LoadDiagnostic(ret) == IF ret \in LoadErrors THEN "Can not load config" ELSE ""

\* _select_device: takes the dialog when more than one device is connected
UsesDialog(devicecount) == devicecount > 1

OpenedMut(gr, g) == gr[g].st # "free"
\* open_device: the test that decides between _setup_device and the error path
Opened(gr, g) == IsDevValid(gr, g)

\* _deviceLostCallback: what it writes to the userdata
DeviceLostMut(ud) == [ud EXCEPT !.connected = ~ud.connected]
DeviceLostWrite(ud) == [ud EXCEPT !.connected = FALSE]

\* _setup_device: what it writes to the userdata
SetupWrite(ud) == [ud EXCEPT !.devicename = "camera", !.connected = TRUE]

\* _get_image_description: the derived fields
ImageDescription(w, h, b) ==
    [width |-> w, height |-> h, bpp |-> b, channel |-> b \div 8,
     buffer_size |-> w * h * b]

\* read: bytes of the ndarray of shape (height, width, channel), dtype uint8
FrameBytes(geo) == geo.height * geo.width * geo.channel

\* open_device, lines 136-141 and the error path: load with
\* should_open_device, _select_device when no device is valid, then the test
OpenFinish(cfg, gr2, h2, devcount) ==
    /\ grabber' = gr2
    /\ hGrabber' = h2
    /\ resume' = IF pc = "ctor_open" THEN "ctor_flip" ELSE "ready"
    /\ pc' = IF Opened(gr2, h2) THEN "setup" ELSE resume'
    /\ last' = [Result("open_device") EXCEPT
                  !.ok = Opened(gr2, h2),
                  !.ret = LoadDeviceStateStatus(cfg, TRUE, grabber, hGrabber, devices),
                  !.devcount = devcount,
                  !.diag = LoadDiagnostic(
                      LoadDeviceStateStatus(cfg, TRUE, grabber, hGrabber, devices)),
                  !.ndiag = IF LoadDiagnostic(
                      LoadDeviceStateStatus(cfg, TRUE, grabber, hGrabber, devices)) = ""
                            THEN 0 ELSE 1]
    /\ UNCHANGED <<userdata, devices, lostPending, geometry>>

OpenDevice(cfg) ==
    /\ pc \in {"ctor_open", "ready"}
    /\ ~Released
    /\ LET gr1 == LoadDeviceStateGrabber(cfg, TRUE, grabber, hGrabber, devices)
       IN IF IsDevValid(gr1, hGrabber)
          THEN OpenFinish(cfg, gr1, hGrabber, -1)
          ELSE IF UsesDialog(devices)
               THEN \E g2 \in Grabbers, picked \in BOOLEAN :
                       /\ gr1[g2].st = "free"
                       /\ OpenFinish(cfg, ShowDeviceSelectionDialog(gr1, g2, picked),
                                     g2, devices)
               ELSE OpenFinish(cfg, OpenDevByUniqueName(gr1, hGrabber, devices),
                               hGrabber, devices)

\* open_device, lines 142-144: _setup_device and the return of True
SetupDevice ==
    /\ pc = "setup"
    /\ userdata' = SetupWrite(userdata)
    /\ grabber' = [grabber EXCEPT ![hGrabber].cb = TRUE]
    /\ pc' = resume
    /\ last' = [Result("_setup_device") EXCEPT !.ok = TRUE]
    /\ UNCHANGED <<resume, hGrabber, devices, lostPending, geometry>>

\* __init__, line 79: _flip_image on the handle open_device left
FlipImage ==
    /\ pc = "ctor_flip"
    /\ grabber' = [grabber EXCEPT ![hGrabber].flipped = TRUE,
                                  ![hGrabber].flipAfterOpen = IsDevValid(grabber, hGrabber)]
    /\ pc' = "ctor_start"
    /\ last' = Result("_flip_image")
    /\ UNCHANGED <<resume, hGrabber, userdata, devices, lostPending, geometry>>

\* start: IC_StartLive, then _get_image_description
Start ==
    /\ pc \in {"ctor_start", "ready"}
    /\ ~Released
    /\ pc' = "ready"
    /\ IF IsDevValid(grabber, hGrabber)
       THEN /\ grabber' = [grabber EXCEPT ![hGrabber].live = TRUE]
            /\ \E w \in Widths, h \in Heights, b \in BitsPerPixel :
                  geometry' = ImageDescription(w, h, b)
       ELSE /\ grabber' = grabber
            /\ geometry' = ImageDescription(geometry.width, geometry.height, geometry.bpp)
    /\ last' = [Result("start") EXCEPT !.ok = IsDevValid(grabber, hGrabber)]
    /\ UNCHANGED <<resume, hGrabber, userdata, devices, lostPending>>

\* read: the snap's report and the image pointer are what the library gives;
\* a snap can report success only in live mode (after IC_StartLive succeeded
\* and before IC_StopLive), whether or not the device is still there
Read ==
    /\ pc = "ready"
    /\ ~Released
    /\ \E snap \in BOOLEAN, null \in BOOLEAN :
          /\ snap => grabber[hGrabber].live
          /\ ~snap => ~null
          /\ last' = IF snap
                     THEN IF ~null
                          THEN [Result("read") EXCEPT !.ok = TRUE, !.pair = TRUE,
                                   !.flag = userdata.connected,
                                   !.frame = FrameBytes(geometry)]
                          ELSE [Result("read") EXCEPT !.ok = TRUE, !.pair = FALSE,
                                   !.diag = "No device found.", !.ndiag = 1]
                     ELSE [Result("read") EXCEPT !.ok = FALSE, !.pair = TRUE,
                              !.flag = userdata.connected]
    /\ UNCHANGED <<pc, resume, hGrabber, grabber, userdata, devices, lostPending,
                   geometry>>

\* load_properties as the caller uses it (should_open_device = False)
LoadProperties(cfg) ==
    /\ pc = "ready"
    /\ ~Released
    /\ LET ret == LoadDeviceStateStatus(cfg, FALSE, grabber, hGrabber, devices)
       IN /\ grabber' = LoadDeviceStateGrabber(cfg, FALSE, grabber, hGrabber, devices)
          /\ last' = [Result("load_properties") EXCEPT
                        !.ret = ret, !.diag = LoadDiagnostic(ret),
                        !.ndiag = IF LoadDiagnostic(ret) = "" THEN 0 ELSE 1]
    /\ UNCHANGED <<pc, resume, hGrabber, userdata, devices, lostPending, geometry>>

\* save_properties: the vendor save is called on the handle, its status dropped
SaveProperties ==
    /\ pc = "ready"
    /\ last' = [Result("save_properties") EXCEPT !.vsave = TRUE]
    /\ UNCHANGED <<pc, resume, hGrabber, grabber, userdata, devices, lostPending,
                   geometry>>

\* show_property_dialog: a thread that calls IC_ShowPropertyDialog
ShowPropertyDialog ==
    /\ pc = "ready"
    /\ ~Released
    /\ last' = Result("show_property_dialog")
    /\ UNCHANGED <<pc, resume, hGrabber, grabber, userdata, devices, lostPending,
                   geometry>>

\* list_available_properties
ListAvailableProperties ==
    /\ pc = "ready"
    /\ ~Released
    /\ last' = Result("list_available_properties")
    /\ UNCHANGED <<pc, resume, hGrabber, grabber, userdata, devices, lostPending,
                   geometry>>

\* release: stop and release when the device is valid; the handle field is
\* left as it is.  On a handle already released the library's answer to
\* IC_IsDevValid is not determined.
Release ==
    /\ pc = "ready"
    /\ IF ~Released
       THEN /\ grabber' = IF IsDevValid(grabber, hGrabber)
                          THEN [grabber EXCEPT ![hGrabber].st = "released",
                                               ![hGrabber].live = FALSE,
                                               ![hGrabber].released = @ + 1]
                          ELSE grabber
            /\ last' = [Result("release") EXCEPT !.ok = IsDevValid(grabber, hGrabber)]
       ELSE \E valid \in BOOLEAN :
               IF valid
               THEN /\ grabber[hGrabber].released < MaxReleases
                    /\ grabber' = [grabber EXCEPT ![hGrabber].released = @ + 1]
                    /\ last' = [Result("release") EXCEPT !.ok = TRUE, !.fault = TRUE]
               ELSE /\ grabber' = grabber
                    /\ last' = Result("release")
    /\ UNCHANGED <<pc, resume, hGrabber, userdata, devices, lostPending, geometry>>

\* _deviceLostCallback, on the vendor's thread
DeviceLostCallback ==
    /\ lostPending
    /\ userdata' = DeviceLostWrite(userdata)
    /\ lostPending' = FALSE
    /\ last' = [EnvResult("deviceLost") EXCEPT !.diag = "Device lost", !.ndiag = 1]
    /\ UNCHANGED <<pc, resume, hGrabber, grabber, devices, geometry>>

\* ---- the cameras ----

OpenGrabbers == {g \in Grabbers : grabber[g].st = "open"}

\* the camera a grabber has open is disconnected
UnplugOpened ==
    /\ \E g \in OpenGrabbers :
          /\ grabber' = [grabber EXCEPT ![g].st = "nodev"]
          /\ lostPending' = (lostPending \/ grabber[g].cb)
    /\ devices' = devices - 1
    /\ last' = EnvResult("unplug")
    /\ UNCHANGED <<pc, resume, hGrabber, userdata, geometry>>

\* a camera no grabber has open is disconnected
UnplugOther ==
    /\ devices > Cardinality(OpenGrabbers)
    /\ devices' = devices - 1
    /\ last' = EnvResult("unplug")
    /\ UNCHANGED <<pc, resume, hGrabber, grabber, userdata, lostPending, geometry>>

Plug ==
    /\ devices < MaxDevices
    /\ devices' = devices + 1
    /\ last' = EnvResult("plug")
    /\ UNCHANGED <<pc, resume, hGrabber, grabber, userdata, lostPending, geometry>>

Next ==
    \/ \E cfg \in Configs : OpenDevice(cfg)
    \/ SetupDevice
    \/ FlipImage
    \/ Start
    \/ Read
    \/ \E cfg \in Configs : LoadProperties(cfg)
    \/ SaveProperties
    \/ ShowPropertyDialog
    \/ ListAvailableProperties
    \/ Release
    \/ DeviceLostCallback
    \/ UnplugOpened
    \/ UnplugOther
    \/ Plug

Spec == Init /\ [][Next]_vars

\* ---- properties ----

\* grabbers the library holds: allocated and not released
LiveGrabbers == {g \in Grabbers : grabber[g].st \in {"nodev", "open"}}

\* the device-lost notification was delivered after the last successful open
LostSinceOpen == userdata.devicename # "" /\ ~userdata.connected

\* C1: after release() was called twice in succession there was no fault, the
\* second call did not stop or release a released handle, and the session's
\* handle is no longer held.
C1_ReleaseTwice ==
    (last.op = "release" /\ last.rel = 2) =>
        /\ ~last.fault
        /\ grabber[hGrabber].released <= 1
        /\ grabber[hGrabber].st = "released"

\* C2: at most one native handle is held at any time, and when release() has
\* returned every handle the session created or obtained was released exactly
\* once.
C2_OneHandleReleasedOnce ==
    /\ Cardinality(LiveGrabbers) <= 1
    /\ last.op = "release" =>
          \A g \in Grabbers : grabber[g].st # "free" => grabber[g].released = 1

\* C3: the connected flag goes from true to false only in a step of the
\* device-lost callback and from false to true only in the _setup_device step
\* of a successful open; no other step writes it.
C3_ConnectedWriters ==
    [][userdata'.connected # userdata.connected =>
          \/ /\ userdata.connected /\ ~userdata'.connected
             /\ last'.op = "deviceLost"
          \/ /\ ~userdata.connected /\ userdata'.connected
             /\ last'.op = "_setup_device" /\ last'.ok]_vars

\* C3 witness: the flag was set by an open and then cleared by the callback
C3_Witness ==
    last.op = "deviceLost" /\ userdata.devicename # "" /\ ~userdata.connected

\* C4: a read() made after the device-lost notification and before a fresh
\* successful open returns (false, no frame), whatever the snap reported.
C4_ReadAfterLost ==
    (last.op = "read" /\ LostSinceOpen) =>
        (last.pair /\ ~last.flag /\ last.frame = NoFrame)

\* C5: a read() that produces no frame returns the pair (connected, none),
\* also when the snap succeeded and the image pointer was null.
C5_NoFrameIsPair ==
    (last.op = "read" /\ last.frame = NoFrame) =>
        (last.pair /\ last.flag = userdata.connected)

\* C6: an open_device made while no device is connected returns false, leaves
\* the handle without a valid device, does not write the userdata and does
\* not register the callbacks.
C6_ZeroDevicesOpenFails ==
    [][(last'.op = "open_device" /\ devices = 0) =>
          /\ ~last'.ok
          /\ ~IsDevValid(grabber', hGrabber')
          /\ userdata' = userdata
          /\ grabber'[hGrabber'].cb = grabber[hGrabber].cb
          /\ pc' # "setup"]_vars

\* C6 witness: an open_device that enumerated zero devices and failed
C6_Witness ==
    last.op = "open_device" /\ last.devcount = 0 /\ ~last.ok /\ devices = 0

\* C7: a load_properties whose load reports file-not-found leaves connected,
\* device name and handle as they were and surfaces exactly one diagnostic,
\* one that no other load error produces.
C7_FileNotFound ==
    [][(last'.op = "load_properties" /\ last'.ret = "IC_FILE_NOT_FOUND") =>
          /\ userdata' = userdata
          /\ hGrabber' = hGrabber
          /\ grabber' = grabber
          /\ last'.ndiag = 1
          /\ \A r \in LoadErrors \ {"IC_FILE_NOT_FOUND"} :
                LoadDiagnostic(r) # last'.diag]_vars

\* C8: a read() that returns a frame returns width * height * (bpp / 8) bytes,
\* and the cached buffer size is that same number of bytes.
C8_FrameBytes ==
    (last.op = "read" /\ last.frame # NoFrame) =>
        /\ last.frame = geometry.width * geometry.height * (geometry.bpp \div 8)
        /\ geometry.buffer_size = last.frame

\* C9: save_properties on a session without a valid device handle fails and
\* does not call the vendor save.
C9_SaveNeedsHandle ==
    (last.op = "save_properties" /\ ~IsDevValid(grabber, hGrabber)) =>
        (last.failed /\ ~last.vsave)

\* C10: acquisition is started on a handle only when the flip filter was
\* installed on that handle after its device was opened.
C10_FlipBeforeStart ==
    (last.op = "start" /\ last.ok) => grabber[hGrabber].flipAfterOpen

====
